---- MODULE Spec2Model ----
(***************************************************************************)
(* newtext (src/main.rs): find and replace text in every file under the    *)
(* current directory.  A string is a sequence of characters; a character   *)
(* is a one-token string.  A file's data is a sequence of units, a unit    *)
(* being a character or the byte InvalidByte that no UTF-8 text contains.  *)
(***************************************************************************)
EXTENDS Integers, Sequences, FiniteSets, TLC

VARIABLES
    pc,                     \* position of main / of the function under test
    old, new,               \* cli.old, cli.new
    pattern, ignore_case,   \* cli.pattern, cli.ignore_case
    regex,                  \* main's `regex`: NoRegex or a compiled pattern
    disk,                   \* path -> [data, fault]: the files on disk
    disk0,                  \* the disk as it was when the run started
    pending,                \* the entries the directory walk has yet to yield
    files_processed,
    files_modified,
    directories_traversed,
    stderr,                 \* what was printed to the error stream
    exit_code,              \* NoExit while running, else the process status
    ret,                    \* what the last process_file call returned
    cwd_ok,                 \* whether env::current_dir() succeeds
    matched, replacement,   \* the arguments of apply_case_pattern
    result                  \* what apply_case_pattern returned

vars == <<pc, old, new, pattern, ignore_case, regex, disk, disk0, pending,
          files_processed, files_modified, directories_traversed, stderr,
          exit_code, ret, cwd_ok, matched, replacement, result>>

----------------------------------------------------------------------------
(* Characters and their case.                                              *)

LowerLetters ==
    <<"a","b","c","d","e","f","g","h","i","j","k","l","m",
      "n","o","p","q","r","s","t","u","v","w","x","y","z">>

UpperLetters ==
    <<"A","B","C","D","E","F","G","H","I","J","K","L","M",
      "N","O","P","Q","R","S","T","U","V","W","X","Y","Z">>

\* A letter that has no case (a CJK ideograph): alphabetic, neither upper
\* nor lower, and its own upper- and lower-case form.
CaselessLetters == {"Zh"}

Range(s) == {s[i] : i \in 1..Len(s)}

IndexOf(c, s) == CHOOSE i \in 1..Len(s) : s[i] = c

is_lowercase(c) == c \in Range(LowerLetters)

is_uppercase(c) == c \in Range(UpperLetters)

is_alphabetic(c) == is_lowercase(c) \/ is_uppercase(c) \/ c \in CaselessLetters

\* char::to_uppercase / char::to_lowercase, for characters whose mapping is
\* one character long.
to_uppercase(c) == IF is_lowercase(c) THEN UpperLetters[IndexOf(c, LowerLetters)] ELSE c

to_lowercase(c) == IF is_uppercase(c) THEN LowerLetters[IndexOf(c, UpperLetters)] ELSE c

\* str::to_uppercase / str::to_lowercase
str_to_uppercase(s) == [i \in 1..Len(s) |-> to_uppercase(s[i])]

str_to_lowercase(s) == [i \in 1..Len(s) |-> to_lowercase(s[i])]

\* .iter().all(|c| c.is_uppercase()), .all(|c| c.is_lowercase()) and
\* .chars().any(|c| c.is_alphabetic())
all_uppercase(s) == \A i \in 1..Len(s) : is_uppercase(s[i])

all_lowercase(s) == \A i \in 1..Len(s) : is_lowercase(s[i])

any_alphabetic(s) == \E i \in 1..Len(s) : is_alphabetic(s[i])

----------------------------------------------------------------------------
(* apply_case_pattern                                                      *)

\* the Title branch: the loop over replacement.chars() with `first_letter`
RECURSIVE TitleLoop(_, _, _)
TitleLoop(repl, i, first_letter) ==
    IF i > Len(repl) THEN <<>>
    ELSE LET c == repl[i] IN
         IF is_alphabetic(c)
         THEN IF first_letter
              THEN <<to_uppercase(c)>> \o TitleLoop(repl, i + 1, FALSE)
              ELSE <<to_lowercase(c)>> \o TitleLoop(repl, i + 1, first_letter)
         ELSE <<c>> \o TitleLoop(repl, i + 1, first_letter)

\* MixedLoop, but every character of the replacement advances the iterator
\* over the match's letters
RECURSIVE MixedLoop_EveryCharAdvances(_, _, _, _)
MixedLoop_EveryCharAdvances(repl, i, alphabetic_chars, k) ==
    IF i > Len(repl) THEN <<>>
    ELSE LET c == repl[i] IN
         IF is_alphabetic(c)
         THEN IF k <= Len(alphabetic_chars)
              THEN (IF is_uppercase(alphabetic_chars[k])
                    THEN <<to_uppercase(c)>>
                    ELSE <<to_lowercase(c)>>)
                   \o MixedLoop_EveryCharAdvances(repl, i + 1, alphabetic_chars, k + 1)
              ELSE <<c>> \o MixedLoop_EveryCharAdvances(repl, i + 1, alphabetic_chars, k)
         ELSE <<c>> \o MixedLoop_EveryCharAdvances(repl, i + 1, alphabetic_chars, k + 1)

\* the mixed-case branch: the loop over replacement.chars(); k is the next
\* position of matched_alpha_iter
RECURSIVE MixedLoop(_, _, _, _)
MixedLoop(repl, i, alphabetic_chars, k) ==
    IF i > Len(repl) THEN <<>>
    ELSE LET c == repl[i] IN
         IF is_alphabetic(c)
         THEN IF k <= Len(alphabetic_chars)
              THEN (IF is_uppercase(alphabetic_chars[k])
                    THEN <<to_uppercase(c)>>
                    ELSE <<to_lowercase(c)>>)
                   \o MixedLoop(repl, i + 1, alphabetic_chars, k + 1)
              ELSE <<c>> \o MixedLoop(repl, i + 1, alphabetic_chars, k)
         ELSE <<c>> \o MixedLoop(repl, i + 1, alphabetic_chars, k)

\* apply_case_pattern, but the Title test comes before the all-upper test
apply_case_pattern_TitleFirst(m, repl) ==
    IF ~any_alphabetic(m) THEN repl
    ELSE LET alphabetic_chars == SelectSeq(m, is_alphabetic)
             all_upper == all_uppercase(alphabetic_chars)
             all_lower == all_lowercase(alphabetic_chars)
             first_upper == /\ is_uppercase(alphabetic_chars[1])
                            /\ all_lowercase(Tail(alphabetic_chars))
         IN  IF first_upper THEN TitleLoop(repl, 1, TRUE)
             ELSE IF all_upper THEN str_to_uppercase(repl)
             ELSE IF all_lower THEN str_to_lowercase(repl)
             ELSE MixedLoop(repl, 1, alphabetic_chars, 1)

apply_case_pattern(m, repl) ==
    IF ~any_alphabetic(m) THEN repl
    ELSE LET alphabetic_chars == SelectSeq(m, is_alphabetic)
             all_upper == all_uppercase(alphabetic_chars)
             all_lower == all_lowercase(alphabetic_chars)
             first_upper == /\ is_uppercase(alphabetic_chars[1])
                            /\ all_lowercase(Tail(alphabetic_chars))
         IN  IF alphabetic_chars = <<>> THEN repl
             ELSE IF all_upper THEN str_to_uppercase(repl)
             ELSE IF all_lower THEN str_to_lowercase(repl)
             ELSE IF first_upper THEN TitleLoop(repl, 1, TRUE)
             ELSE MixedLoop(repl, 1, alphabetic_chars, 1)

----------------------------------------------------------------------------
(* The regex crate, as far as main.rs uses it: Regex::new, regex::escape,  *)
(* is_match, replace_all with a &str and with a closure.  The pattern      *)
(* syntax modelled is: an optional leading (?i), then atoms, an atom being *)
(* a literal character, an escaped meta character or a class [...] of      *)
(* literal characters, each optionally followed by one greedy +.           *)

\* regex_syntax::is_meta_character
MetaChars ==
    {"\\", ".", "+", "*", "?", "(", ")", "|", "[", "]", "{", "}", "^", "$", "#", "&", "-", "~"}

\* Escape, but the term is used as a pattern as it is
Escape_Nothing(s) == s

\* regex::escape
RECURSIVE Escape(_)
Escape(s) ==
    IF s = <<>> THEN <<>>
    ELSE (IF Head(s) \in MetaChars THEN <<"\\", Head(s)>> ELSE <<Head(s)>>)
         \o Escape(Tail(s))

\* format!("(?i){}", ..)
CaseInsensitivePrefix == <<"(", "?", "i", ")">>

HasPrefix(s, p) == Len(s) >= Len(p) /\ SubSeq(s, 1, Len(p)) = p

InvalidAtoms == [ok |-> FALSE, atoms |-> <<>>]

\* the index of the ] that closes the class opened at src[i]; a ] right
\* after the [ is a member of the class. 0 when the class is not closed.
ClassEnd(src, i) ==
    LET closing == {j \in (i + 2)..Len(src) : src[j] = "]"}
    IN  IF closing = {} THEN 0 ELSE CHOOSE j \in closing : \A k \in closing : j <= k

\* The atoms of src[i..]. A + with nothing to repeat and a class that is not
\* closed are errors, as in the crate. The escapes and meta characters that
\* the syntax modelled leaves out are rejected too; no pattern tried
\* contains one.
RECURSIVE ParseAtoms(_, _)
ParseAtoms(src, i) ==
    IF i > Len(src) THEN [ok |-> TRUE, atoms |-> <<>>]
    ELSE
      LET c == src[i]
          \* [ok, set, next]: the atom that starts at i
          atom ==
            IF c = "\\"
            THEN IF i + 1 <= Len(src) /\ src[i + 1] \in MetaChars
                 THEN [ok |-> TRUE, set |-> {src[i + 1]}, next |-> i + 2]
                 ELSE [ok |-> FALSE, set |-> {}, next |-> i]
            ELSE IF c = "["
            THEN IF ClassEnd(src, i) = 0
                 THEN [ok |-> FALSE, set |-> {}, next |-> i]
                 ELSE [ok |-> TRUE,
                       set |-> {src[k] : k \in (i + 1)..(ClassEnd(src, i) - 1)},
                       next |-> ClassEnd(src, i) + 1]
            ELSE IF c \in MetaChars \ {"]"}
            THEN [ok |-> FALSE, set |-> {}, next |-> i]
            ELSE [ok |-> TRUE, set |-> {c}, next |-> i + 1]
      IN  IF ~atom.ok THEN InvalidAtoms
          ELSE LET plus == atom.next <= Len(src) /\ src[atom.next] = "+"
                   rest == ParseAtoms(src, IF plus THEN atom.next + 1 ELSE atom.next)
               IN  IF ~rest.ok THEN InvalidAtoms
                   ELSE [ok |-> TRUE,
                         atoms |-> <<[set |-> atom.set, plus |-> plus]>> \o rest.atoms]

\* Regex::new: [ok, ci, atoms]; ok = FALSE is Err
RegexNew(src) ==
    LET ci == HasPrefix(src, CaseInsensitivePrefix)
        parsed == ParseAtoms(src, IF ci THEN Len(CaseInsensitivePrefix) + 1 ELSE 1)
    IN  [ok |-> parsed.ok, ci |-> ci /\ parsed.ok, atoms |-> parsed.atoms]

\* simple case folding
Fold(c) == to_lowercase(c)

AtomMatches(re, k, c) ==
    IF re.ci THEN \E m \in re.atoms[k].set : Fold(m) = Fold(c)
    ELSE c \in re.atoms[k].set

\* how many characters from text[i] on atom k accepts in a row
RECURSIVE RunLen(_, _, _, _)
RunLen(re, text, k, i) ==
    IF i <= Len(text) /\ AtomMatches(re, k, text[i])
    THEN 1 + RunLen(re, text, k, i + 1)
    ELSE 0

\* The match of atoms k.. at text[i]: the index after its last character,
\* or 0 when there is none. A + takes as many characters as it can and gives
\* them back one at a time.
RECURSIVE MatchEnd(_, _, _, _)
RECURSIVE TryPlus(_, _, _, _, _)
MatchEnd(re, text, k, i) ==
    IF k > Len(re.atoms) THEN i
    ELSE IF re.atoms[k].plus
    THEN TryPlus(re, text, k, i, RunLen(re, text, k, i))
    ELSE IF i <= Len(text) /\ AtomMatches(re, k, text[i])
    THEN MatchEnd(re, text, k + 1, i + 1)
    ELSE 0

TryPlus(re, text, k, i, n) ==
    IF n < 1 THEN 0
    ELSE LET e == MatchEnd(re, text, k + 1, i + n)
         IN  IF e # 0 THEN e ELSE TryPlus(re, text, k, i, n - 1)

\* FindIter, but it stops at the first match (Regex::replace for replace_all)
RECURSIVE FindIter_FirstOnly(_, _, _)
FindIter_FirstOnly(re, text, pos) ==
    IF pos > Len(text) THEN <<>>
    ELSE LET e == MatchEnd(re, text, 1, pos)
         IN  IF e = 0 THEN FindIter_FirstOnly(re, text, pos + 1)
             ELSE <<(<<pos, e>>)>>

\* Regex::find_iter: the non-overlapping matches from text[pos] on, leftmost
\* first, as <<start, end>> pairs (end exclusive)
RECURSIVE FindIter(_, _, _)
FindIter(re, text, pos) ==
    IF pos > Len(text) THEN <<>>
    ELSE LET e == MatchEnd(re, text, 1, pos)
         IN  IF e = 0 THEN FindIter(re, text, pos + 1)
             ELSE <<(<<pos, e>>)>> \o FindIter(re, text, e)

\* Regex::is_match
is_match(re, text) == FindIter(re, text, 1) # <<>>

\* Regex::replace_all, given the matches and the replacement of each
RECURSIVE Splice(_, _, _, _, _)
Splice(text, ms, reps, j, pos) ==
    IF j > Len(ms) THEN SubSeq(text, pos, Len(text))
    ELSE SubSeq(text, pos, ms[j][1] - 1) \o reps[j]
         \o Splice(text, ms, reps, j + 1, ms[j][2])

\* the characters of a capture reference's name
Digits == {"0", "1", "2", "3", "4", "5", "6", "7", "8", "9"}

is_valid_cap_letter(c) ==
    c \in Digits \/ c = "_" \/ is_lowercase(c) \/ is_uppercase(c)

RECURSIVE CapEnd(_, _)
CapEnd(s, i) ==
    IF i <= Len(s) /\ is_valid_cap_letter(s[i]) THEN CapEnd(s, i + 1) ELSE i

\* Captures::expand on the replacement of replace_all(&str): $$ is a $, $name
\* is the text of the group called name, a $ that starts no reference is
\* itself. The patterns modelled have group 0 (the whole match) and no other
\* group, and a group that does not exist expands to the empty string.
RECURSIVE Expand(_, _, _)
Expand(repl, i, whole) ==
    IF i > Len(repl) THEN <<>>
    ELSE IF repl[i] # "$" THEN <<repl[i]>> \o Expand(repl, i + 1, whole)
    ELSE IF i + 1 <= Len(repl) /\ repl[i + 1] = "$"
    THEN <<"$">> \o Expand(repl, i + 2, whole)
    ELSE LET e == CapEnd(repl, i + 1)
         IN  IF e = i + 1 THEN <<"$">> \o Expand(repl, i + 1, whole)
             ELSE (IF \A k \in (i + 1)..(e - 1) : repl[k] = "0" THEN whole ELSE <<>>)
                  \o Expand(repl, e, whole)

\* <&str as Replacer>::replace_append
StrReplacer(repl, whole) ==
    IF "$" \notin Range(repl) THEN repl ELSE Expand(repl, 1, whole)

----------------------------------------------------------------------------
(* Files.  fault says what the file system does to this file:              *)
(*   none         reads and writes succeed                                 *)
(*   unreadable   opening it fails (permission denied, path vanished)      *)
(*   readonly     it can be read, opening it for writing fails             *)
(*   short_write  it can be read and opened; the write fails part-way      *)

InvalidByte == "xFF"

Faults == {"none", "unreadable", "readonly", "short_write"}

\* std::str::from_utf8 on the file's bytes
IsUtf8(data) == \A i \in 1..Len(data) : data[i] # InvalidByte

\* read_to_string, but bytes that are no text are let through
\* (String::from_utf8_lossy)
read_to_string_Lossy(f) ==
    IF f.fault = "unreadable"
    THEN [ok |-> FALSE, text |-> <<>>]
    ELSE [ok |-> TRUE, text |-> f.data]

\* fs::read_to_string
read_to_string(f) ==
    IF f.fault = "unreadable" \/ ~IsUtf8(f.data)
    THEN [ok |-> FALSE, text |-> <<>>]
    ELSE [ok |-> TRUE, text |-> f.data]

\* fs::write: File::create truncates the file, write_all then fills it. The
\* set of [ret, file] it can end with.
fs_write(f, contents) ==
    IF f.fault = "readonly" THEN {[ret |-> "Err", file |-> f]}
    ELSE IF f.fault = "short_write"
    THEN {[ret |-> "Err", file |-> [f EXCEPT !.data = SubSeq(contents, 1, k)]] :
             k \in 0..(Len(contents) - 1)}
    ELSE {[ret |-> "Ok", file |-> [f EXCEPT !.data = contents]]}

----------------------------------------------------------------------------
(* str::contains and str::replace with a non-empty pattern                 *)

StartsAt(text, pat, i) ==
    /\ i + Len(pat) - 1 <= Len(text)
    /\ SubSeq(text, i, i + Len(pat) - 1) = pat

str_contains(text, pat) == \E i \in 1..(Len(text) + 1) : StartsAt(text, pat, i)

\* str_replace, but only the first occurrence is replaced (str::replacen 1)
RECURSIVE str_replace_FirstOnly(_, _, _, _)
str_replace_FirstOnly(text, from, to, i) ==
    IF i > Len(text) THEN <<>>
    ELSE IF StartsAt(text, from, i)
    THEN to \o SubSeq(text, i + Len(from), Len(text))
    ELSE <<text[i]>> \o str_replace_FirstOnly(text, from, to, i + 1)

RECURSIVE str_replace(_, _, _, _)
str_replace(text, from, to, i) ==
    IF i > Len(text) THEN <<>>
    ELSE IF StartsAt(text, from, i) THEN to \o str_replace(text, from, to, i + Len(from))
    ELSE <<text[i]>> \o str_replace(text, from, to, i + 1)

----------------------------------------------------------------------------
(* process_file                                                            *)

\* Option<Regex>
NoRegex == [some |-> FALSE, ci |-> FALSE, atoms |-> <<>>]

SomeRegex(re) == [some |-> TRUE, ci |-> re.ci, atoms |-> re.atoms]

NotFound == [found |-> FALSE, text |-> <<>>]

MatchText(content, m) == SubSeq(content, m[1], m[2] - 1)

\* lines 207-239: `new_content`, or NotFound where the code returns Ok(false)
NewContent(content, o, n, re, ic) ==
    IF re.some
    THEN IF ~is_match(re, content) THEN NotFound
         ELSE LET ms == FindIter(re, content, 1)
                  reps == [j \in 1..Len(ms) |-> StrReplacer(n, MatchText(content, ms[j]))]
              IN  [found |-> TRUE, text |-> Splice(content, ms, reps, 1, 1)]
    ELSE IF ic
    THEN LET re2 == RegexNew(CaseInsensitivePrefix \o Escape(o))
         IN  IF ~re2.ok THEN NotFound
             ELSE IF ~is_match(re2, content) THEN NotFound
             ELSE LET ms == FindIter(re2, content, 1)
                      reps == [j \in 1..Len(ms) |->
                                  apply_case_pattern(MatchText(content, ms[j]), n)]
                  IN  [found |-> TRUE, text |-> Splice(content, ms, reps, 1, 1)]
    ELSE IF ~str_contains(content, o) THEN NotFound
         ELSE [found |-> TRUE, text |-> str_replace(content, o, n, 1)]

\* process_file, but an I/O error of the read is returned to the caller
\* (read_to_string(path)? unless the error is InvalidData)
process_file_ReadErrorReturned(f, o, n, re, ic) ==
    LET rd == read_to_string(f)
        nc == NewContent(rd.text, o, n, re, ic)
    IN  IF f.fault = "unreadable" THEN {[ret |-> "Err", file |-> f]}
        ELSE IF ~rd.ok THEN {[ret |-> "Ok(false)", file |-> f]}
        ELSE IF ~nc.found THEN {[ret |-> "Ok(false)", file |-> f]}
        ELSE IF nc.text = rd.text THEN {[ret |-> "Ok(false)", file |-> f]}
        ELSE {[ret |-> IF w.ret = "Ok" THEN "Ok(true)" ELSE "Err", file |-> w.file] :
                 w \in fs_write(f, nc.text)}

\* process_file, but without the test `new_content == content`
process_file_AlwaysWrites(f, o, n, re, ic) ==
    LET rd == read_to_string(f)
        nc == NewContent(rd.text, o, n, re, ic)
    IN  IF ~rd.ok THEN {[ret |-> "Ok(false)", file |-> f]}
        ELSE IF ~nc.found THEN {[ret |-> "Ok(false)", file |-> f]}
        ELSE {[ret |-> IF w.ret = "Ok" THEN "Ok(true)" ELSE "Err", file |-> w.file] :
                 w \in fs_write(f, nc.text)}

\* the set of [ret, file]: what process_file can return, and the file after
process_file(f, o, n, re, ic) ==
    LET rd == read_to_string(f)
        nc == NewContent(rd.text, o, n, re, ic)
    IN  IF ~rd.ok THEN {[ret |-> "Ok(false)", file |-> f]}
        ELSE IF ~nc.found THEN {[ret |-> "Ok(false)", file |-> f]}
        ELSE IF nc.text = rd.text THEN {[ret |-> "Ok(false)", file |-> f]}
        ELSE {[ret |-> IF w.ret = "Ok" THEN "Ok(true)" ELSE "Err", file |-> w.file] :
                 w \in fs_write(f, nc.text)}

----------------------------------------------------------------------------
(* main                                                                    *)

NoExit == -1

\* the entries the walk yields: the root and a sub-directory, a symlink, an
\* entry the walk fails on, and the regular files
EntryKind(e) ==
    IF e \in {".", "sub"} THEN "dir"
    ELSE IF e = "link" THEN "other"
    ELSE IF e = "denied" THEN "error"
    ELSE "file"

Line(kind, path, counts) == [kind |-> kind, path |-> path, counts |-> counts]

\* lines 41-56: Ok(Option<Regex>) or the Err of Regex::new
CompileCli(o, p, ic) ==
    IF p
    THEN LET re == RegexNew(IF ic THEN CaseInsensitivePrefix \o o ELSE o)
         IN  IF re.ok THEN [ok |-> TRUE, regex |-> SomeRegex(re)]
             ELSE [ok |-> FALSE, regex |-> NoRegex]
    ELSE [ok |-> TRUE, regex |-> NoRegex]

\* FatalError, but an invalid pattern is not fatal (.ok() for the match)
FatalError_PatternUnchecked(o, p, ic, cwd) ==
    IF o = <<>> THEN "Error: old string cannot be empty"
    ELSE IF ~cwd THEN "Error getting current directory"
    ELSE ""

\* lines 35-64: "" when the run goes on to the walk, else the fatal error
FatalError(o, p, ic, cwd) ==
    IF o = <<>> THEN "Error: old string cannot be empty"
    ELSE IF ~CompileCli(o, p, ic).ok THEN "Error: Invalid regex pattern"
    ELSE IF ~cwd THEN "Error getting current directory"
    ELSE ""

\* lines 33-68
Startup ==
    /\ pc = "start"
    /\ LET err == FatalError(old, pattern, ignore_case, cwd_ok)
       IN  IF err # ""
           THEN /\ stderr' = Append(stderr, Line("error", err, <<>>))
                /\ exit_code' = 1
                /\ pc' = "exit"
                /\ UNCHANGED <<regex, files_processed, files_modified,
                               directories_traversed>>
           ELSE /\ regex' = CompileCli(old, pattern, ignore_case).regex
                /\ files_processed' = 0
                /\ files_modified' = 0
                /\ directories_traversed' = 0
                /\ pc' = "walk"
                /\ UNCHANGED <<stderr, exit_code>>
    /\ UNCHANGED <<old, new, pattern, ignore_case, disk, disk0, pending, ret,
                   cwd_ok, matched, replacement, result>>

\* lines 75-78: the walk yields an error
WalkError ==
    /\ pc = "walk"
    /\ pending # <<>>
    /\ EntryKind(Head(pending)) = "error"
    /\ pending' = Tail(pending)
    /\ UNCHANGED <<pc, old, new, pattern, ignore_case, regex, disk, disk0,
                   files_processed, files_modified, directories_traversed,
                   stderr, exit_code, ret, cwd_ok, matched, replacement, result>>

\* lines 80-84
VisitDirectory ==
    /\ pc = "walk"
    /\ pending # <<>>
    /\ EntryKind(Head(pending)) = "dir"
    /\ pending' = Tail(pending)
    /\ directories_traversed' = directories_traversed + 1
    /\ UNCHANGED <<pc, old, new, pattern, ignore_case, regex, disk, disk0,
                   files_processed, files_modified, stderr, exit_code, ret,
                   cwd_ok, matched, replacement, result>>

\* lines 86-89: neither a directory nor a regular file
SkipOther ==
    /\ pc = "walk"
    /\ pending # <<>>
    /\ EntryKind(Head(pending)) = "other"
    /\ pending' = Tail(pending)
    /\ UNCHANGED <<pc, old, new, pattern, ignore_case, regex, disk, disk0,
                   files_processed, files_modified, directories_traversed,
                   stderr, exit_code, ret, cwd_ok, matched, replacement, result>>

\* Count, but every Ok counts as a modification
Count_EveryOkModified(r, processed, modified) ==
    IF r = "Ok(true)" \/ r = "Ok(false)"
    THEN [processed |-> processed + 1, modified |-> modified + 1]
    ELSE [processed |-> processed, modified |-> modified]

\* lines 93-104: the counters after process_file returned r
Count(r, processed, modified) ==
    IF r = "Ok(true)" THEN [processed |-> processed + 1, modified |-> modified + 1]
    ELSE IF r = "Ok(false)" THEN [processed |-> processed + 1, modified |-> modified]
    ELSE [processed |-> processed, modified |-> modified]

\* lines 91-110
VisitFile ==
    /\ pc = "walk"
    /\ pending # <<>>
    /\ EntryKind(Head(pending)) = "file"
    /\ pending' = Tail(pending)
    /\ \E out \in process_file(disk[Head(pending)], old, new, regex, ignore_case) :
          LET c == Count(out.ret, files_processed, files_modified)
              warned == IF out.ret = "Err"
                        THEN Append(stderr, Line("warning", Head(pending), <<>>))
                        ELSE stderr
          IN  /\ disk' = [disk EXCEPT ![Head(pending)] = out.file]
              /\ ret' = out.ret
              /\ files_processed' = c.processed
              /\ files_modified' = c.modified
              /\ stderr' = Append(warned,
                     Line("progress", "",
                          <<c.processed, directories_traversed, c.modified>>))
    /\ UNCHANGED <<pc, old, new, pattern, ignore_case, regex, disk0,
                   directories_traversed, exit_code, cwd_ok, matched,
                   replacement, result>>

\* lines 113-115: the walk is over
Finish ==
    /\ pc = "walk"
    /\ pending = <<>>
    /\ pc' = "done"
    /\ exit_code' = 0
    /\ stderr' = Append(stderr, Line("newline", "", <<>>))
    /\ UNCHANGED <<old, new, pattern, ignore_case, regex, disk, disk0, pending,
                   files_processed, files_modified, directories_traversed, ret,
                   cwd_ok, matched, replacement, result>>

Next ==
    \/ Startup
    \/ WalkError
    \/ VisitDirectory
    \/ SkipOther
    \/ VisitFile
    \/ Finish

----------------------------------------------------------------------------
(* The runs checked.                                                       *)

MaxFiles == 2
MaxContentLen == 4
MaxTermLen == 2
MaxReplLen == 2
MaxMatchLen == 3

StringsUpTo(A, n) == UNION {[1..k -> A] : k \in 0..n}

HelloWorld == <<"H", "e", "l", "l", "o", " ", "W", "o", "r", "l", "d">>
HelloRust == <<"H", "e", "l", "l", "o", " ", "R", "u", "s", "t">>
World == <<"W", "o", "r", "l", "d">>
Rust == <<"R", "u", "s", "t">>

File(data, fault) == [data |-> data, fault |-> fault]

FilePaths == <<"a.txt", "b.bin", "c.txt", "d.txt", "e.txt">>

MainFiles ==
    {File(HelloWorld, "none"),
     File(<<"o", InvalidByte>>, "none"),
     File(<<"[", "o", "+">>, "none"),
     File(<<"o", "+", "O">>, "none"),
     File(<<"o", "+", "O">>, "unreadable"),
     File(<<"o", "+", "O">>, "readonly"),
     File(<<"o", "+", "O">>, "short_write")}

MainOlds == {<<>>, <<"o">>, <<"o", "+">>, <<"[", "o">>, World}

MainNews == {<<"o">>, Rust}

\* the order of a walk over n files: the root first
Walk(n) ==
    <<".", FilePaths[1], "denied", "link", "sub">>
    \o [i \in 1..(n - 1) |-> FilePaths[i + 1]]

Idle ==
    /\ old = <<>> /\ new = <<>> /\ pattern = FALSE /\ ignore_case = FALSE
    /\ regex = NoRegex /\ cwd_ok = TRUE
    /\ disk = <<>> /\ disk0 = <<>> /\ pending = <<>>
    /\ files_processed = 0 /\ files_modified = 0 /\ directories_traversed = 0
    /\ stderr = <<>> /\ exit_code = NoExit /\ ret = "none"

Init ==
    /\ pc = "start"
    /\ old \in MainOlds
    /\ new \in MainNews
    /\ pattern \in BOOLEAN
    /\ ignore_case \in BOOLEAN
    /\ cwd_ok \in BOOLEAN
    /\ regex = NoRegex
    /\ \E n \in 1..MaxFiles :
          /\ disk \in [{FilePaths[i] : i \in 1..n} -> MainFiles]
          /\ pending = Walk(n)
    /\ disk0 = disk
    /\ files_processed = 0 /\ files_modified = 0 /\ directories_traversed = 0
    /\ stderr = <<>> /\ exit_code = NoExit /\ ret = "none"
    /\ matched = <<>> /\ replacement = <<>> /\ result = <<>>

Spec == Init /\ [][Next]_vars

----------------------------------------------------------------------------
(* process_file on one file, with the arguments main passes it.            *)

NonEmpty(S) == S \ {<<>>}

FooFooo == <<"f", "o", "o", " ", "f", "o", "o", "o">>
BarBarBar == <<"B", "A", "R", " ", "b", "a", "r", " ", "B", "a", "r">>

\* the [old, new, pattern, ignore_case, content] tried, mode by mode
LiteralInputs ==
    [old : NonEmpty(StringsUpTo({"a", "b"}, MaxTermLen)),
     new : StringsUpTo({"a", "b"}, MaxReplLen),
     pattern : {FALSE}, ignore_case : {FALSE},
     content : StringsUpTo({"a", "b"}, MaxContentLen)]

IgnoreCaseInputs ==
    [old : NonEmpty(StringsUpTo({"a", "+"}, MaxTermLen)),
     new : StringsUpTo({"x", "Y", "$"}, MaxReplLen),
     pattern : {FALSE}, ignore_case : {TRUE},
     content : StringsUpTo({"a", "A", "+"}, MaxContentLen - 1)]
    \cup
    [old : {<<"b", "a", "r">>}, new : {<<"f", "o", "o">>},
     pattern : {FALSE}, ignore_case : {TRUE}, content : {BarBarBar}]

RegexSources ==
    {<<"o">>, <<"o", "+">>, <<"o", "+", "o">>, <<"[", "f", "o", "]">>,
     <<"f", "[", "o", "]", "+">>}

RegexInputs ==
    [old : RegexSources,
     new : StringsUpTo({"x", "$", "0"}, MaxReplLen),
     pattern : {TRUE}, ignore_case : BOOLEAN,
     content : StringsUpTo({"f", "o", "O"}, MaxContentLen - 1) \cup {FooFooo}]

FileInputs == LiteralInputs \cup IgnoreCaseInputs \cup RegexInputs

ThePath == FilePaths[1]

InitFile ==
    /\ pc = "call"
    /\ \E in \in FileInputs :
          /\ old = in.old /\ new = in.new
          /\ pattern = in.pattern /\ ignore_case = in.ignore_case
          /\ regex = CompileCli(in.old, in.pattern, in.ignore_case).regex
          /\ disk = [p \in {ThePath} |-> File(in.content, "none")]
    /\ disk0 = disk
    /\ cwd_ok = TRUE /\ pending = <<>>
    /\ files_processed = 0 /\ files_modified = 0 /\ directories_traversed = 0
    /\ stderr = <<>> /\ exit_code = NoExit /\ ret = "none"
    /\ matched = <<>> /\ replacement = <<>> /\ result = <<>>

CallProcessFile ==
    /\ pc = "call"
    /\ pc' = "returned"
    /\ \E out \in process_file(disk[ThePath], old, new, regex, ignore_case) :
          /\ disk' = [disk EXCEPT ![ThePath] = out.file]
          /\ ret' = out.ret
    /\ UNCHANGED <<old, new, pattern, ignore_case, regex, disk0, pending,
                   files_processed, files_modified, directories_traversed,
                   stderr, exit_code, cwd_ok, matched, replacement, result>>

NextFile == CallProcessFile

SpecFile == InitFile /\ [][NextFile]_vars

----------------------------------------------------------------------------
(* apply_case_pattern on its own.                                          *)

MatchedInputs ==
    StringsUpTo({"a", "B", "1", "Zh"}, MaxMatchLen)
    \cup {<<"B", "A", "R">>, <<"b", "a", "r">>, <<"B", "a", "r">>,
          <<"b", "A", "r">>, <<"1", "2", "3">>}

ReplacementInputs ==
    StringsUpTo({"f", "O", "-"}, MaxReplLen + 2)
    \cup {<<"f", "o", "o">>, <<"Zh", "f", "O">>, <<"f", "Zh", "O">>}

InitCase ==
    /\ pc = "apply"
    /\ matched \in MatchedInputs
    /\ replacement \in ReplacementInputs
    /\ result = <<>>
    /\ Idle

CallApplyCasePattern ==
    /\ pc = "apply"
    /\ pc' = "applied"
    /\ result' = apply_case_pattern(matched, replacement)
    /\ UNCHANGED <<old, new, pattern, ignore_case, regex, disk, disk0, pending,
                   files_processed, files_modified, directories_traversed,
                   stderr, exit_code, ret, cwd_ok, matched, replacement>>

NextCase == CallApplyCasePattern

SpecCase == InitCase /\ [][NextCase]_vars

----------------------------------------------------------------------------
(* Properties of apply_case_pattern.                                       *)

Letters(s) == SelectSeq(s, is_alphabetic)

\* how many of s[1..i] are alphabetic
LetterRank(s, i) == Cardinality({j \in 1..i : is_alphabetic(s[j])})

IsAllUpper(s) == Letters(s) # <<>> /\ \A i \in 1..Len(Letters(s)) : is_uppercase(Letters(s)[i])

IsAllLower(s) == Letters(s) # <<>> /\ \A i \in 1..Len(Letters(s)) : is_lowercase(Letters(s)[i])

IsTitle(s) ==
    /\ Letters(s) # <<>>
    /\ is_uppercase(Letters(s)[1])
    /\ \A i \in 2..Len(Letters(s)) : is_lowercase(Letters(s)[i])

IsMixed(s) == Letters(s) # <<>> /\ ~IsAllUpper(s) /\ ~IsAllLower(s) /\ ~IsTitle(s)

SameLength(a, b) == Len(a) = Len(b)

\* C2: apply_case_pattern classifies the letters of the match in this order:
\* no letter -> the replacement unchanged; all upper -> the replacement
\* upper-cased; all lower -> lower-cased; first letter upper and the later
\* ones lower -> the replacement's first letter capitalised, its later
\* letters lower-cased, its other characters unchanged. BAR/foo -> FOO,
\* bar/foo -> foo, Bar/foo -> Foo, 123/foo -> foo.
C2_CaseCategories ==
    pc = "applied" =>
      /\ Letters(matched) = <<>> => result = replacement
      /\ IsAllUpper(matched) =>
            /\ SameLength(result, replacement)
            /\ \A i \in 1..Len(replacement) : result[i] = to_uppercase(replacement[i])
      /\ (IsAllLower(matched) /\ ~IsAllUpper(matched)) =>
            /\ SameLength(result, replacement)
            /\ \A i \in 1..Len(replacement) : result[i] = to_lowercase(replacement[i])
      /\ (IsTitle(matched) /\ ~IsAllUpper(matched) /\ ~IsAllLower(matched)) =>
            /\ SameLength(result, replacement)
            /\ \A i \in 1..Len(replacement) :
                  result[i] =
                     IF ~is_alphabetic(replacement[i]) THEN replacement[i]
                     ELSE IF LetterRank(replacement, i) = 1
                     THEN to_uppercase(replacement[i])
                     ELSE to_lowercase(replacement[i])
      /\ replacement = <<"f", "o", "o">> =>
            /\ matched = <<"B", "A", "R">> => result = <<"F", "O", "O">>
            /\ matched = <<"b", "a", "r">> => result = <<"f", "o", "o">>
            /\ matched = <<"B", "a", "r">> => result = <<"F", "o", "o">>
            /\ matched = <<"1", "2", "3">> => result = <<"f", "o", "o">>

C2_Witness ==
    /\ pc = "applied"
    /\ matched = <<"B", "a", "1">>
    /\ replacement = <<"-", "f", "O">>
    /\ result = <<"-", "F", "o">>

\* C3: on a mixed-case match the k-th letter of the replacement takes the
\* case of the k-th letter of the match; the replacement's letters beyond the
\* match's letters keep the case they were written in; the replacement's
\* other characters are emitted unchanged and use up no letter of the match.
\* bAr/foo -> fOo.
C3_MixedCasePositional ==
    (pc = "applied" /\ IsMixed(matched)) =>
      /\ SameLength(result, replacement)
      /\ \A i \in 1..Len(replacement) :
            LET c == replacement[i]
                k == LetterRank(replacement, i)
            IN  IF ~is_alphabetic(c) THEN result[i] = c
                ELSE IF k > Len(Letters(matched)) THEN result[i] = c
                ELSE /\ is_uppercase(Letters(matched)[k]) => result[i] = to_uppercase(c)
                     /\ is_lowercase(Letters(matched)[k]) => result[i] = to_lowercase(c)
      /\ (matched = <<"b", "A", "r">> /\ replacement = <<"f", "o", "o">>) =>
            result = <<"f", "O", "o">>

C3_Witness ==
    /\ pc = "applied"
    /\ matched = <<"a", "1", "B">>
    /\ replacement = <<"O", "-", "f", "O">>
    /\ result = <<"o", "-", "F", "O">>

----------------------------------------------------------------------------
(* Properties of process_file's replacement, stated on the occurrences of  *)
(* the search term. An occurrence is <<start, end>>, end exclusive.        *)

Content0 == disk0[ThePath].data

ContentNow == disk[ThePath].data

LiteralOccurrences(text, term) ==
    {<<i, i + Len(term)>> : i \in {j \in 1..Len(text) : StartsAt(text, term, j)}}

FoldedOccurrences(text, term) ==
    {<<i, i + Len(term)>> :
        i \in {j \in 1..(Len(text) - Len(term) + 1) :
                  \A k \in 1..Len(term) : Fold(text[j + k - 1]) = Fold(term[k])}}

RegexOccurrences(text, re) ==
    {<<i, MatchEnd(re, text, 1, i)>> :
        i \in {j \in 1..Len(text) : MatchEnd(re, text, 1, j) # 0}}

\* the occurrences a left-to-right scan takes: no two overlap, and every
\* occurrence left out starts inside one that is taken
LeftToRight(occ) ==
    CHOOSE S \in SUBSET occ :
       /\ \A a, b \in S : a[1] < b[1] => a[2] <= b[1]
       /\ \A o \in occ \ S : \E a \in S : a[1] < o[1] /\ o[1] < a[2]

RECURSIVE Flatten(_, _)
Flatten(pieces, i) ==
    IF i > Len(pieces) THEN <<>> ELSE pieces[i] \o Flatten(pieces, i + 1)

\* text with each occurrence a of S replaced by rep[a]
Rebuilt(text, S, rep) ==
    Flatten([i \in 1..Len(text) |->
                IF \E a \in S : a[1] = i THEN rep[CHOOSE a \in S : a[1] = i]
                ELSE IF \E a \in S : a[1] < i /\ i < a[2] THEN <<>>
                ELSE <<text[i]>>], 1)

\* process_file returned, and the file holds `expected` (written if it
\* differs from what the file held)
Produced(expected) ==
    IF expected = Content0
    THEN ret = "Ok(false)" /\ disk = disk0
    ELSE ret = "Ok(true)" /\ ContentNow = expected

LiteralCall == pc = "returned" /\ ~pattern /\ ~ignore_case

\* C1 (as amended): in literal case-sensitive mode, when the content holds
\* the term, the produced content is the content with every occurrence the
\* left-to-right scan takes replaced by the replacement; every occurrence of
\* the term in the content overlaps one that is replaced, so the term can
\* remain only where an inserted replacement takes part in it.
C1_LiteralReplacesLeftToRight ==
    (LiteralCall /\ str_contains(Content0, old)) =>
       LET occ == LiteralOccurrences(Content0, old)
           S == LeftToRight(occ)
       IN  /\ S # {}
           /\ Produced(Rebuilt(Content0, S, [a \in S |-> new]))
           /\ \A o \in occ : \E a \in S : a[1] <= o[1] /\ o[1] < a[2]

C1_Witness ==
    /\ LiteralCall
    /\ old = <<"a", "a">> /\ new = <<"b">>
    /\ Content0 = <<"a", "a", "a", "b">>
    /\ ContentNow = <<"b", "a", "b">>
    /\ ret = "Ok(true)"

\* C1 (as claimed): ... and no occurrence of the term remains in the produced
\* content unless the replacement itself contains the term.
C1_NoOccurrenceRemains ==
    (LiteralCall /\ str_contains(Content0, old)) =>
       LET S == LeftToRight(LiteralOccurrences(Content0, old))
       IN  /\ Produced(Rebuilt(Content0, S, [a \in S |-> new]))
           /\ ~str_contains(new, old) => ~str_contains(ContentNow, old)

IgnoreCaseCall == pc = "returned" /\ ~pattern /\ ignore_case

\* C4: in literal case-insensitive mode the term is matched literally,
\* whatever the case of its letters, and every match the left-to-right scan
\* takes is replaced by apply_case_pattern(that match, new); the text outside
\* the matches is unchanged. "BAR bar Bar" with bar -> foo is "FOO foo Foo".
C4_IgnoreCaseRecasesEachMatch ==
    IgnoreCaseCall =>
       LET S == LeftToRight(FoldedOccurrences(Content0, old))
           rep == [a \in S |-> apply_case_pattern(SubSeq(Content0, a[1], a[2] - 1), new)]
       IN  /\ Produced(Rebuilt(Content0, S, rep))
           /\ (Content0 = BarBarBar /\ old = <<"b", "a", "r">> /\ new = <<"f", "o", "o">>) =>
                 ContentNow = <<"F", "O", "O", " ", "f", "o", "o", " ", "F", "o", "o">>

C4_Witness ==
    /\ IgnoreCaseCall
    /\ old = <<"a", "+">> /\ new = <<"x", "$">>
    /\ Content0 = <<"A", "+", "a">>
    /\ ContentNow = <<"X", "$", "a">>
    /\ ret = "Ok(true)"

RegexCall == pc = "returned" /\ pattern

\* C5 (as amended): in regex mode every match the left-to-right scan takes is
\* replaced, with no case inference, also under ignore_case: by the
\* replacement verbatim when it contains no $; a $ starts a reference that is
\* expanded, $0 to the match, $x (no such group) to nothing and $$ to one $.
\* "f[o]+" replaces both "foo" and "fooo".
C5_RegexReplacesAll ==
    RegexCall =>
       LET S == LeftToRight(RegexOccurrences(Content0, regex))
       IN  /\ "$" \notin Range(new) => Produced(Rebuilt(Content0, S, [a \in S |-> new]))
           /\ new = <<"$", "0">> => Produced(Content0)
           /\ new = <<"$", "$">> => Produced(Rebuilt(Content0, S, [a \in S |-> <<"$">>]))
           /\ new = <<"$", "x">> => Produced(Rebuilt(Content0, S, [a \in S |-> <<>>]))
           /\ (old = <<"f", "[", "o", "]", "+">> /\ Content0 = FooFooo /\ new = <<"x">>) =>
                 ContentNow = <<"x", " ", "x">>
           /\ (old = <<"o">> /\ ignore_case /\ Content0 = <<"O", "o">> /\ new = <<"x">>) =>
                 ContentNow = <<"x", "x">>

C5_Witness ==
    /\ RegexCall /\ ignore_case
    /\ old = <<"f", "[", "o", "]", "+">> /\ new = <<"x">>
    /\ Content0 = <<"f", "O", "o">>
    /\ ContentNow = <<"x">>
    /\ ret = "Ok(true)"

\* C5 (as claimed): in regex mode every match is replaced by the replacement
\* verbatim, whatever the replacement string.
C5_ReplacementVerbatim ==
    RegexCall =>
       LET S == LeftToRight(RegexOccurrences(Content0, regex))
       IN  Produced(Rebuilt(Content0, S, [a \in S |-> new]))

----------------------------------------------------------------------------
(* Properties of a run of main.                                            *)

VisitedFiles == {p \in DOMAIN disk : p \notin Range(pending)}

Warned(p) == \E i \in 1..Len(stderr) : stderr[i].kind = "warning" /\ stderr[i].path = p

IsText(f) == IsUtf8(f.data)

\* what the replacement makes of file f's text
Replaced(f) == NewContent(f.data, old, new, regex, ignore_case)

\* what becomes of a file that held f when the walk reaches it
Outcome(f) ==
    IF f.fault = "unreadable" \/ ~IsText(f) THEN "Skipped"
    ELSE IF ~Replaced(f).found \/ Replaced(f).text = f.data THEN "Unchanged"
    ELSE IF f.fault \in {"readonly", "short_write"} THEN "WriteFailed"
    ELSE "Modified"

AtFile == pc = "walk" /\ pending # <<>> /\ EntryKind(Head(pending)) = "file"

BadArguments == old = <<>> \/ (pattern /\ ~RegexNew(old).ok)

\* C6: with an empty search term, or in pattern mode a malformed regular
\* expression, the run ends with status 1 before any file is read or written:
\* no file differs from its initial content and no file was processed.
C6_FatalBeforeAnyFile ==
    /\ BadArguments =>
          /\ disk = disk0
          /\ VisitedFiles = {}
          /\ files_processed = 0 /\ files_modified = 0
          /\ ret = "none"
          /\ pc \in {"start", "exit"}
          /\ pc = "exit" => exit_code = 1
    /\ exit_code = 1 => (disk = disk0 /\ VisitedFiles = {} /\ ret = "none")

C6_Witness ==
    /\ pc = "exit" /\ exit_code = 1
    /\ pattern /\ old = <<"[", "o">> /\ cwd_ok
    /\ \E p \in DOMAIN disk : disk[p] = File(<<"[", "o", "+">>, "none")

\* C7 (as amended): a failure to write a file is reported as a warning for
\* that file; a failure to read it, of any kind, is not: the file is skipped
\* without a warning and counted as processed. Neither ends the run: the
\* walk goes on and every later file is processed.
C7_WriteFailureWarnedReadFailureSkipped ==
    /\ \A p \in VisitedFiles :
          /\ Warned(p) <=> Outcome(disk0[p]) = "WriteFailed"
          /\ disk0[p].fault = "unreadable" => (~Warned(p) /\ disk[p] = disk0[p])
    /\ files_processed = Cardinality({p \in VisitedFiles : ~Warned(p)})
    /\ VisitedFiles # {} => pc \in {"walk", "done"} /\ exit_code # 1
    /\ AtFile => process_file(disk[Head(pending)], old, new, regex, ignore_case) # {}
    /\ pc = "done" => VisitedFiles = DOMAIN disk

C7_Witness ==
    /\ pc = "done" /\ exit_code = 0
    /\ DOMAIN disk = {"a.txt", "b.bin"}
    /\ disk0["a.txt"].fault = "short_write" /\ Warned("a.txt")
    /\ disk["a.txt"] # disk0["a.txt"]
    /\ disk0["b.bin"].fault = "unreadable" /\ ~Warned("b.bin")
    /\ files_processed = 1

\* C7 (as claimed): a failure to read a file that is not a decoding failure,
\* and a failure to write it, are each reported as a warning for that file,
\* and the walk goes on.
C7_EveryIoFailureWarned ==
    /\ \A p \in VisitedFiles :
          (disk0[p].fault = "unreadable" \/ Outcome(disk0[p]) = "WriteFailed") => Warned(p)
    /\ VisitedFiles # {} => pc \in {"walk", "done"} /\ exit_code # 1
    /\ pc = "done" => VisitedFiles = DOMAIN disk

NoNewWarning == \A i \in (Len(stderr) + 1)..Len(stderr') : stderr'[i].kind # "warning"

\* C8: in every mode, the step that visits a file whose bytes are no valid
\* text leaves the file as it is, prints no warning, does not end the run,
\* and adds one to files_processed and nothing to files_modified.
C8_BinarySkipped ==
    [][(AtFile /\ ~IsText(disk[Head(pending)])) =>
          /\ disk' = disk
          /\ ret' = "Ok(false)"
          /\ NoNewWarning
          /\ pc' = "walk" /\ exit_code' = exit_code
          /\ files_processed' = files_processed + 1
          /\ files_modified' = files_modified]_vars

C8_Witness ==
    /\ pc = "done"
    /\ pattern /\ ignore_case /\ old = <<"o">>
    /\ disk0["a.txt"] = File(<<"o", InvalidByte>>, "none")
    /\ disk["a.txt"] = disk0["a.txt"]
    /\ ~Warned("a.txt")
    /\ Cardinality(DOMAIN disk) = 1 /\ files_processed = 1 /\ files_modified = 0

C10_NoWriteWhenIdentical ==
    [][(/\ AtFile
        /\ disk[Head(pending)].fault # "unreadable"
        /\ IsText(disk[Head(pending)])
        /\ Replaced(disk[Head(pending)]).found
        /\ Replaced(disk[Head(pending)]).text = disk[Head(pending)].data) =>
          /\ ret' = "Ok(false)"
          /\ disk' = disk
          /\ NoNewWarning
          /\ files_modified' = files_modified
          /\ files_processed' = files_processed + 1]_vars

C10_Witness ==
    /\ pc = "done"
    /\ pattern /\ old = <<"o", "+">> /\ new = <<"o">>
    /\ disk0["a.txt"] = File(<<"o", "+", "O">>, "short_write")
    /\ Replaced(disk0["a.txt"]).found
    /\ disk["a.txt"] = disk0["a.txt"]
    /\ ~Warned("a.txt")
    /\ Cardinality(DOMAIN disk) = 1 /\ files_processed = 1 /\ files_modified = 0

====
